---------------------------- MODULE Spec2Model ----------------------------
(***************************************************************************)
(* Model of the repository cache of opencode-github-explorer:              *)
(*   url-parser.ts        parseGitHubUrl, validateGitHubNames              *)
(*   metadata-manager.ts  MetadataManager (global and project JSON files)  *)
(*   clone-manager.ts     CloneManager (cloneRepo, cleanupLRU, ...)        *)
(* Strings are sequences of one-character strings, so that the regular     *)
(* expressions of url-parser.ts are computed character by character.       *)
(***************************************************************************)
EXTENDS Integers, Sequences, FiniteSets, TLC

(***************************************************************************)
(* Bounds of the model.                                                    *)
(***************************************************************************)
\* the clock runs from day 0 to day MaxDays
MaxDays == 1
\* maxClonedRepos is drawn from 1..MaxCapacity
MaxCapacity == 2
\* a collaborator (rm -rf, Bun.write) may fail at its 1st..MaxFaultIndex-th call
MaxFaultIndex == 1
\* how many calls are in progress at a time
MaxOverlap == 2

(***************************************************************************)
(* Characters and strings.                                                 *)
(***************************************************************************)
Lower == {"a","b","c","d","e","f","g","h","i","j","k","l","m",
          "n","o","p","q","r","s","t","u","v","w","x","y","z"}
Upper == {"A","B","C","D","E","F","G","H","I","J","K","L","M",
          "N","O","P","Q","R","S","T","U","V","W","X","Y","Z"}
Digit == {"0","1","2","3","4","5","6","7","8","9"}
\* [a-zA-Z0-9]
AlphaNum == Lower \cup Upper \cup Digit
\* [a-zA-Z0-9-]
OwnerInner == AlphaNum \cup {"-"}
\* [a-zA-Z0-9_-]
ShortOwnerChar == AlphaNum \cup {"_", "-"}
\* [a-zA-Z0-9._-]
RepoChar == AlphaNum \cup {".", "_", "-"}
\* what String.prototype.trim removes
WhiteSpace == {" ", "\t", "\n", "\r"}
\* what "." of a regular expression does not match
LineTerminator == {"\n", "\r"}

Slash == <<"/">>
DotGit == <<".","g","i","t">>
HttpsPrefix == <<"h","t","t","p","s",":","/","/","g","i","t","h","u","b",".","c","o","m","/">>
HttpPrefix == <<"h","t","t","p",":","/","/","g","i","t","h","u","b",".","c","o","m","/">>
SshPrefix == <<"g","i","t","@","g","i","t","h","u","b",".","c","o","m",":">>

StartsWith(s, p) == Len(s) >= Len(p) /\ SubSeq(s, 1, Len(p)) = p
EndsWith(s, p) == Len(s) >= Len(p) /\ SubSeq(s, Len(s) - Len(p) + 1, Len(s)) = p
Drop(s, n) == SubSeq(s, n + 1, Len(s))
AllIn(s, cls) == \A i \in 1..Len(s) : s[i] \in cls

\* index of the first "/" of s, 0 when there is none
FirstSlash(s) ==
  IF \E i \in 1..Len(s) : s[i] = "/"
  THEN CHOOSE i \in 1..Len(s) : s[i] = "/" /\ \A j \in 1..(i - 1) : s[j] # "/"
  ELSE 0

\* input.trim()
Trim(s) ==
  IF \A i \in 1..Len(s) : s[i] \in WhiteSpace THEN <<>>
  ELSE LET a == CHOOSE i \in 1..Len(s) :
                  s[i] \notin WhiteSpace /\ \A j \in 1..(i - 1) : s[j] \in WhiteSpace
           b == CHOOSE i \in 1..Len(s) :
                  s[i] \notin WhiteSpace /\ \A j \in (i + 1)..Len(s) : s[j] \in WhiteSpace
       IN SubSeq(s, a, b)

(***************************************************************************)
(* url-parser.ts                                                           *)
(***************************************************************************)
NoParse == [ok |-> FALSE]

\* the object literal with the url left without its .git suffix
Parsed_UrlWithoutGit(owner, repo) ==
  [ok    |-> TRUE,
   owner |-> owner,
   repo  |-> repo,
   key   |-> owner \o Slash \o repo,
   url   |-> HttpsPrefix \o owner \o Slash \o repo]

\* the object literal the three branches of parseGitHubUrl return
Parsed(owner, repo) ==
  [ok    |-> TRUE,
   owner |-> owner,
   repo  |-> repo,
   key   |-> owner \o Slash \o repo,
   url   |-> HttpsPrefix \o owner \o Slash \o repo \o DotGit]

\* the tail with a greedy (.+), which keeps a trailing ".git" in the repo
MatchOwnerRepo_KeepsGit(rest) ==
  LET i     == FirstSlash(rest)
      owner == SubSeq(rest, 1, i - 1)
      tail  == Drop(rest, i)
  IN IF i > 1 /\ Len(tail) >= 1 /\ \A j \in 1..Len(tail) : tail[j] \notin LineTerminator
     THEN Parsed(owner, tail)
     ELSE NoParse

\* the tail "([^\/]+)\/(.+?)(\.git)?$" shared by httpsPattern and sshPattern:
\* the owner runs to the first "/", the lazy (.+?) takes the rest without a
\* trailing ".git" when something is left before it
MatchOwnerRepo(rest) ==
  LET i     == FirstSlash(rest)
      owner == SubSeq(rest, 1, i - 1)
      tail  == Drop(rest, i)
      repo  == IF Len(tail) > Len(DotGit) /\ EndsWith(tail, DotGit)
               THEN SubSeq(tail, 1, Len(tail) - Len(DotGit))
               ELSE tail
  IN IF i > 1 /\ Len(tail) >= 1 /\ \A j \in 1..Len(tail) : tail[j] \notin LineTerminator
     THEN Parsed(owner, repo)
     ELSE NoParse

\* shorthandPattern with (.+) for the repo
MatchShorthand_AnyRepo(s) ==
  LET i     == FirstSlash(s)
      owner == SubSeq(s, 1, i - 1)
      repo  == Drop(s, i)
  IN IF i > 1 /\ Len(repo) >= 1 /\ AllIn(owner, ShortOwnerChar)
     THEN Parsed(owner, repo)
     ELSE NoParse

\* shorthandPattern /^([a-zA-Z0-9_-]+)\/([a-zA-Z0-9._-]+)$/
MatchShorthand(s) ==
  LET i     == FirstSlash(s)
      owner == SubSeq(s, 1, i - 1)
      repo  == Drop(s, i)
  IN IF i > 1 /\ Len(repo) >= 1 /\ AllIn(owner, ShortOwnerChar) /\ AllIn(repo, RepoChar)
     THEN Parsed(owner, repo)
     ELSE NoParse

parseGitHubUrl(input) ==
  LET trimmed == Trim(input)
      https   == IF StartsWith(trimmed, HttpsPrefix)
                 THEN MatchOwnerRepo(Drop(trimmed, Len(HttpsPrefix)))
                 ELSE IF StartsWith(trimmed, HttpPrefix)
                 THEN MatchOwnerRepo(Drop(trimmed, Len(HttpPrefix)))
                 ELSE NoParse
      ssh     == IF StartsWith(trimmed, SshPrefix)
                 THEN MatchOwnerRepo(Drop(trimmed, Len(SshPrefix)))
                 ELSE NoParse
  IN IF https.ok THEN https
     ELSE IF ssh.ok THEN ssh
     ELSE MatchShorthand(trimmed)

\* validateGitHubNames with the owner bound off by one
validateGitHubNames_Max40(owner, repo) ==
  LET n          == Len(owner)
      ownerValid == /\ n >= 1
                    /\ n <= 40
                    /\ owner[1] \in AlphaNum
                    /\ owner[n] \in AlphaNum
                    /\ AllIn(owner, OwnerInner)
      repoValid  == Len(repo) >= 1 /\ AllIn(repo, RepoChar)
  IN ownerValid /\ repoValid

\* validateGitHubNames without the owner pattern
validateGitHubNames_RepoOnly(owner, repo) ==
  /\ repo # <<>>
  /\ AllIn(repo, RepoChar)

validateGitHubNames(owner, repo) ==
  LET n          == Len(owner)
      ownerValid == /\ n >= 1
                    /\ n <= 39
                    /\ owner[1] \in AlphaNum
                    /\ owner[n] \in AlphaNum
                    /\ AllIn(owner, OwnerInner)
      repoValid  == Len(repo) >= 1 /\ AllIn(repo, RepoChar)
  IN ownerValid /\ repoValid

(***************************************************************************)
(* Inputs: the reference strings a caller hands to cloneRepo.              *)
(***************************************************************************)
RefAX == <<"a","/","x">>
RefBY == <<"b","/","y">>
RefCZ == <<"c","/","z">>
\* valid references, one per cache key
GoodRefs == {RefAX, RefBY, RefCZ}
\* other spellings of a/x, and references cloneRepo rejects
Refs ==
  GoodRefs \cup
  { HttpsPrefix \o RefAX \o DotGit,        \* https://github.com/a/x.git
    <<"x">>,                               \* no "/": matches no pattern
    <<"-","a","/","x">>                    \* parses, owner starts with "-"
  }
Keys == { parseGitHubUrl(r).key : r \in GoodRefs }
\* owner a, repo ".": the names validate, and path.join drops the segment
RefADot == <<"a","/",".">>

(***************************************************************************)
(* config.ts                                                               *)
(***************************************************************************)
\* days * 24 * 60 * 60 * 1000 of cleanupStale
MsPerDay == 24 * 60 * 60 * 1000

(***************************************************************************)
(* The state.                                                              *)
(***************************************************************************)
VARIABLES
  globalFile,      \* content of ~/.config/opencode/github-explorer-metadata.json
  projectFile,     \* content of <projectDir>/.opencode/github-explorer-metadata.json
  disk,            \* the artifact found at each clone path
  now,             \* Date.now(), in ms since the manager was constructed
  maxClonedRepos,  \* config.maxClonedRepos
  projectDir,      \* whether the MetadataManager was given a projectDir
  last,            \* the last call: its operation, argument and outcome
  running          \* the calls in progress, where calls overlap: for each
                   \* its position and its local variables

vars ==
  <<globalFile, projectFile, disk, now, maxClonedRepos, projectDir, last, running>>

\* a metadata file: one that does not exist, or one holding a JSON array
\* a metadata file: whether it exists, what file.json() makes of it ("array",
\* "other" for JSON that is no array, "bad" when reading or parsing throws),
\* and the array
NoFile == [exists |-> FALSE, json |-> "none", data |-> <<>>]
File(metadata) == [exists |-> TRUE, json |-> "array", data |-> metadata]
Damaged(kind) == [exists |-> TRUE, json |-> kind, data |-> <<>>]
DamageKinds == {"other", "bad"}
NoPath == << <<"?">> >>
NoKey == <<"?">>
NoFault == 0 - 1

\* node:path join(cloneDirectory, owner, repo), as the segments below
\* cloneDirectory: "." is dropped and ".." removes the segment before it
RECURSIVE Normalize(_, _)
Normalize(segs, acc) ==
  IF segs = <<>> THEN acc
  ELSE LET h == Head(segs)
       IN IF h = <<".">> THEN Normalize(Tail(segs), acc)
          ELSE IF h = <<".", ".">> /\ acc # <<>> /\ acc[Len(acc)] # <<".", ".">>
          THEN Normalize(Tail(segs), SubSeq(acc, 1, Len(acc) - 1))
          ELSE Normalize(Tail(segs), Append(acc, h))
join(owner, repo) == Normalize(<<owner, repo>>, <<>>)

\* path.join(clonesDir, owner, repo) of every reference that parses
PathsOf(refs) ==
  { join(parseGitHubUrl(r).owner, parseGitHubUrl(r).repo) :
      r \in { q \in refs : parseGitHubUrl(q).ok } }
Paths == PathsOf(Refs)

\* what is at a clone path: nothing, a working tree with .git and files,
\* a directory without .git, a directory with .git and no ordinary file, or
\* ("dir") a directory that holds at most other directories
ArtifactStates == {"absent", "intact", "nogit", "nofiles", "dir"}
existsSync(a) == a # "absent"
HasGitDir(a) == a \in {"intact", "nofiles"}
HasRootFiles(a) == a \in {"intact", "nogit"}

\* the RepoMetadata cloneRepo builds
NewMetadata(parsed, repoPath, t) ==
  [key |-> parsed.key, url |-> parsed.url, path |-> repoPath,
   clonedAt |-> t, lastAccessed |-> t]

(***************************************************************************)
(* metadata-manager.ts.  The operations thread a record w, the world during *)
(* one call: g, p the two files, disk, rmLeft / wrLeft the number of       *)
(* rm -rf / Bun.write calls that still succeed, err the error thrown so    *)
(* far ("" for none), errKey the key whose deletion step threw, failed the *)
(* collaborators that failed ("rm", "write", "mkdir", "clone"), read       *)
(* whether the store was read, fetch what git clone did ("none" when it    *)
(* was not run, "ok", "failed"), ret the path returned.                    *)
(***************************************************************************)
World(rmLeft, wrLeft) ==
  [g |-> globalFile, p |-> projectFile, disk |-> disk,
   rmLeft |-> rmLeft, wrLeft |-> wrLeft,
   err |-> "", errKey |-> NoKey, failed |-> {}, read |-> FALSE,
   fetch |-> "none", ret |-> NoPath, trace |-> <<>>]

Throw(w, e) == [w EXCEPT !.err = e]
\* a collaborator fails and its error is thrown
Fail(w, who, e) == [w EXCEPT !.err = e, !.failed = @ \cup {who}]

\* the catch block turns a throwing file.json() into [], as a missing file
\* and a value that is no array are
loadFromPath(f) ==
  IF ~f.exists THEN <<>>
  ELSE IF f.json = "bad" THEN <<>>
  ELSE IF f.json = "array" THEN f.data
  ELSE <<>>

\* index of the first entry of s with the key, 0 when there is none
findIndex(s, key) ==
  IF \E i \in 1..Len(s) : s[i].key = key
  THEN CHOOSE i \in 1..Len(s) : s[i].key = key /\ \A j \in 1..(i - 1) : s[j].key # key
  ELSE 0

\* Map.set: replace the value in place, or append
MapSet(m, repo) ==
  LET i == findIndex(m, repo.key)
  IN IF i > 0 THEN [m EXCEPT ![i] = repo] ELSE Append(m, repo)

RECURSIVE MapSetAll(_, _)
MapSetAll(m, s) ==
  IF s = <<>> THEN m ELSE MapSetAll(MapSet(m, Head(s)), Tail(s))

\* load with the global file overriding the project file
loadFiles_GlobalWins(g, p) ==
  IF ~projectDir THEN loadFromPath(g)
  ELSE MapSetAll(MapSetAll(<<>>, loadFromPath(p)), loadFromPath(g))

\* load concatenating the two files instead of merging them by key
loadFiles_Concat(g, p) ==
  IF ~projectDir THEN loadFromPath(g) ELSE loadFromPath(g) \o loadFromPath(p)

loadFiles(g, p) ==
  LET globalData == loadFromPath(g)
  IN IF ~projectDir THEN globalData
     ELSE MapSetAll(MapSetAll(<<>>, globalData), loadFromPath(p))

load(w) == loadFiles(w.g, w.p)

\* saveToPath with the error of Bun.write logged and not thrown again
saveToPath_Swallowed(w, useProject, metadata) ==
  IF w.wrLeft = 0 THEN [w EXCEPT !.failed = @ \cup {"write"}]
  ELSE IF useProject
       THEN [w EXCEPT !.p = File(metadata), !.wrLeft = @ - 1]
       ELSE [w EXCEPT !.g = File(metadata), !.wrLeft = @ - 1]

saveToPath(w, useProject, metadata) ==
  IF w.wrLeft = 0 THEN Fail(w, "write", "StoreUnavailable")
  ELSE IF useProject
       THEN [w EXCEPT !.p = File(metadata), !.wrLeft = @ - 1]
       ELSE [w EXCEPT !.g = File(metadata), !.wrLeft = @ - 1]

save(w, metadata, useProject) ==
  saveToPath(w, useProject /\ projectDir, metadata)

NoRepo == [key |-> NoKey]

findByKey(w, key) ==
  LET all == load(w)
      i   == findIndex(all, key)
  IN IF i > 0 THEN all[i] ELSE NoRepo

\* the order of the steps of a call: the step e has ended, and load()
\* would now return n entries
Note(w, e) ==
  [w EXCEPT !.trace = Append(@, [e |-> e, n |-> Len(load(w))])]

upsert(w, repo, useProject) ==
  LET all   == load(w)
      index == findIndex(all, repo.key)
      next  == IF index > 0 THEN [all EXCEPT ![index] = repo] ELSE Append(all, repo)
  IN Note(save([w EXCEPT !.read = TRUE], next, useProject), "upsert")

SelectSeqKeyNot(s, key) ==
  LET Keep(repo) == repo.key # key IN SelectSeq(s, Keep)

remove(w, key, useProject) ==
  save([w EXCEPT !.read = TRUE], SelectSeqKeyNot(load(w), key), useProject)

\* Array.prototype.sort with (a, b) => a.lastAccessed - b.lastAccessed: a
\* stable sort, here by insertion
RECURSIVE InsertSorted(_, _)
InsertSorted(sorted, repo) ==
  IF sorted = <<>> THEN <<repo>>
  ELSE IF Head(sorted).lastAccessed <= repo.lastAccessed
       THEN <<Head(sorted)>> \o InsertSorted(Tail(sorted), repo)
       ELSE <<repo>> \o sorted

RECURSIVE SortByLastAccessed(_, _)
SortByLastAccessed(s, acc) ==
  IF s = <<>> THEN acc
  ELSE SortByLastAccessed(Tail(s), InsertSorted(acc, Head(s)))

getSortedByLRU(w) == SortByLastAccessed(load(w), <<>>)

(***************************************************************************)
(* clone-manager.ts                                                        *)
(***************************************************************************)
\* rm -rf path: the path and everything below it
RemoveTree(d, path) ==
  [q \in DOMAIN d |-> IF StartsWith(q, path) THEN "absent" ELSE d[q]]

\* this.$`rm -rf ${path}`; a failing rm leaves the tree as it was
Rm(w, path) ==
  IF w.rmLeft = 0 THEN Fail(w, "rm", "DeletionFailed")
  ELSE [w EXCEPT !.disk = RemoveTree(@, path), !.rmLeft = @ - 1]

\* validateClone with the test of .git inverted
validateClone_GitInverted(d, path) ==
  /\ existsSync(d[path])
  /\ ~HasGitDir(d[path])
  /\ HasRootFiles(d[path])

validateClone(d, path) ==
  /\ existsSync(d[path])
  /\ HasGitDir(d[path])
  /\ HasRootFiles(d[path])

\* updateLastAccessed refreshing the wrong timestamp
updateLastAccessed_ClonedAt(w, key) ==
  LET repo == findByKey(w, key)
  IN IF repo.key # NoKey
     THEN upsert(w, [repo EXCEPT !.clonedAt = now], FALSE)
     ELSE w

updateLastAccessed(w, key) ==
  LET repo == findByKey(w, key)
  IN IF repo.key # NoKey
     THEN upsert(w, [repo EXCEPT !.lastAccessed = now], FALSE)
     ELSE w

\* deleteRepo removing the record before the directory
deleteRepo_RecordFirst(w, key) ==
  LET repo == findByKey(w, key)
      w0   == [w EXCEPT !.read = TRUE]
      w1   == remove(w0, key, FALSE)
      w2   == IF w1.err = "" /\ existsSync(w1.disk[repo.path])
              THEN Rm(w1, repo.path) ELSE w1
  IN IF repo.key = NoKey THEN w0
     ELSE IF w2.err # "" THEN Note([w2 EXCEPT !.errKey = key], "deleteRepo")
     ELSE Note(w2, "deleteRepo")

deleteRepo(w, key) ==
  LET repo == findByKey(w, key)
      w0   == [w EXCEPT !.read = TRUE]
      w1   == IF existsSync(w0.disk[repo.path]) THEN Rm(w0, repo.path) ELSE w0
      w2   == IF w1.err = "" THEN remove(w1, key, FALSE) ELSE w1
  IN IF repo.key = NoKey THEN w0
     ELSE IF w2.err # "" THEN Note([w2 EXCEPT !.errKey = key], "deleteRepo")
     ELSE Note(w2, "deleteRepo")

\* for (const repo of repos) await this.deleteRepo(repo.key), up to the
\* first deletion that throws
RECURSIVE DeleteEach(_, _)
DeleteEach(w, repos) ==
  IF repos = <<>> \/ w.err # "" THEN w
  ELSE DeleteEach(deleteRepo(w, Head(repos).key), Tail(repos))

Min(a, b) == IF a <= b THEN a ELSE b

cleanupLRU(w, count) ==
  LET sorted == getSortedByLRU(w)
  IN DeleteEach([w EXCEPT !.read = TRUE], SubSeq(sorted, 1, Min(count, Len(sorted))))

cleanupStale(w, days) ==
  LET all    == load(w)
      cutoff == now - days * MsPerDay
      IsStale(repo) == repo.lastAccessed < cutoff
  IN DeleteEach([w EXCEPT !.read = TRUE], SelectSeq(all, IsStale))

ensureCapacity(w) ==
  LET all == load(w)
      w0  == [w EXCEPT !.read = TRUE]
  IN IF Len(all) >= maxClonedRepos
     THEN cleanupLRU(w0, Len(all) - maxClonedRepos + 1)
     ELSE w0

\* what mkdir and git clone do in one call of cloneRepo: "ok" leaves a
\* working tree, "okEmpty" one without an ordinary file at its root (a
\* repository with none), "fail" nothing, "failPartial" a directory with
\* .git and nothing checked out, "mkdirFail" is ensureDirectory throwing
CloneOutcomes == {"ok", "okEmpty", "fail", "failPartial", "mkdirFail"}

\* if (!existsSync(path)) mkdir(path): matters for a directory that is the
\* clone path of some reference
ensureDirectory(w, path) ==
  IF path \in DOMAIN w.disk /\ ~existsSync(w.disk[path])
  THEN [w EXCEPT !.disk[path] = "dir"]
  ELSE w

\* the directory at path holds something: a clone made there, or another
\* clone path below it
NonEmpty(d, path) ==
  \/ d[path] \in {"intact", "nogit", "nofiles"}
  \/ \E q \in DOMAIN d : q # path /\ StartsWith(q, path) /\ existsSync(d[q])

\* git clone --depth n url repoPath; git refuses a destination that exists
\* and is not empty
gitClone(w, repoPath, outcome) ==
  LET failed == [Fail(w, "clone", "FetchFailed") EXCEPT !.fetch = "failed"]
  IN Note(IF NonEmpty(w.disk, repoPath) THEN failed
          ELSE IF outcome = "ok"
               THEN [w EXCEPT !.fetch = "ok", !.disk[repoPath] = "intact"]
          ELSE IF outcome = "okEmpty"
               THEN [w EXCEPT !.fetch = "ok", !.disk[repoPath] = "nofiles"]
          ELSE IF outcome = "failPartial"
               THEN [failed EXCEPT !.disk[repoPath] = "nofiles"]
          ELSE failed,
          "git clone")

\* the try block with the metadata saved before git clone is run
cloneInto_UpsertFirst(w, parsed, repoPath, outcome) ==
  LET w1 == upsert(w, NewMetadata(parsed, repoPath, now), FALSE)
      w2 == IF w1.err # "" THEN w1
            ELSE IF outcome = "mkdirFail" THEN Fail(w1, "mkdir", "FetchFailed")
            ELSE gitClone(ensureDirectory(w1, Normalize(<<parsed.owner>>, <<>>)),
                          repoPath, outcome)
      w3 == [w2 EXCEPT !.err = ""]
      w4 == IF existsSync(w3.disk[repoPath]) THEN Rm(w3, repoPath) ELSE w3
  IN IF w2.err = "" THEN [w2 EXCEPT !.ret = repoPath]
     ELSE IF w4.err # "" THEN Throw(w4, "CleanupFailed")
     ELSE Throw(w4, "FetchFailed")

\* the try block of cloneRepo and its catch
cloneInto(w, parsed, repoPath, outcome) ==
  LET w1 == IF outcome = "mkdirFail" THEN Fail(w, "mkdir", "FetchFailed")
            ELSE gitClone(ensureDirectory(w, Normalize(<<parsed.owner>>, <<>>)),
                          repoPath, outcome)
      w2 == IF w1.err = ""
            THEN upsert(w1, NewMetadata(parsed, repoPath, now), FALSE)
            ELSE w1
      \* catch: the cause is dropped, rm -rf may throw in its turn
      w3 == [w2 EXCEPT !.err = ""]
      w4 == IF existsSync(w3.disk[repoPath]) THEN Rm(w3, repoPath) ELSE w3
  IN IF w2.err = "" THEN [w2 EXCEPT !.ret = repoPath]
     ELSE IF w4.err # "" THEN Throw(w4, "CleanupFailed")
     ELSE Throw(w4, "FetchFailed")

\* cloneRepo going on to clone after a deleteRepo that threw
cloneRepo_DeletionIgnored(w, urlInput, outcome) ==
  LET parsed   == parseGitHubUrl(urlInput)
      existing == findByKey(w, parsed.key)
      w0       == [w EXCEPT !.read = TRUE]
      isValid  == validateClone(w0.disk, existing.path)
      w1       == IF existing.key # NoKey
                  THEN [deleteRepo(w0, parsed.key) EXCEPT !.err = ""]
                  ELSE w0
      w2       == ensureCapacity(w1)
      repoPath == join(parsed.owner, parsed.repo)
  IN IF ~parsed.ok THEN Throw(w, "InvalidReference")
     ELSE IF ~validateGitHubNames(parsed.owner, parsed.repo)
          THEN Throw(w, "InvalidReference")
     ELSE IF existing.key # NoKey /\ isValid
          THEN LET w5 == updateLastAccessed(w0, parsed.key)
               IN IF w5.err = "" THEN [w5 EXCEPT !.ret = existing.path] ELSE w5
     ELSE IF w2.err # "" THEN w2
     ELSE cloneInto(w2, parsed, repoPath, outcome)

cloneRepo(w, urlInput, outcome) ==
  LET parsed   == parseGitHubUrl(urlInput)
      existing == findByKey(w, parsed.key)
      w0       == [w EXCEPT !.read = TRUE]
      isValid  == validateClone(w0.disk, existing.path)
      w1       == IF existing.key # NoKey THEN deleteRepo(w0, parsed.key) ELSE w0
      w2       == IF w1.err = "" THEN ensureCapacity(w1) ELSE w1
      repoPath == join(parsed.owner, parsed.repo)
  IN IF ~parsed.ok THEN Throw(w, "InvalidReference")
     ELSE IF ~validateGitHubNames(parsed.owner, parsed.repo)
          THEN Throw(w, "InvalidReference")
     ELSE IF existing.key # NoKey /\ isValid
          THEN LET w5 == updateLastAccessed(w0, parsed.key)
               IN IF w5.err = "" THEN [w5 EXCEPT !.ret = existing.path] ELSE w5
     ELSE IF w2.err # "" THEN w2
     ELSE cloneInto(w2, parsed, repoPath, outcome)

(***************************************************************************)
(* The state machine: one action per call of a public operation, taken to  *)
(* completion, and the changes made from outside the process.  A call      *)
(* leaves its outcome in last; Return hands it to the caller, and the next *)
(* call starts from there.                                                 *)
(***************************************************************************)
\* rmLeft, wrLeft: the collaborator never fails, or fails at its i-th call
FaultBudgets == {NoFault} \cup 0..(MaxFaultIndex - 1)
NoFaults == {NoFault}
\* the count argument of cleanupLRU
Counts == 0..(MaxCapacity + 1)
\* the days argument of cleanupStale
StaleDays == 0..MaxDays

Quiet ==
  [op |-> "none", ref |-> <<>>, arg |-> 0, useProject |-> FALSE, status |-> "ok",
   ret |-> NoPath, fetch |-> "none", read |-> FALSE, errKey |-> NoKey,
   failed |-> {}]

Result(op, ref, useProject, w) ==
  [op |-> op, ref |-> ref, arg |-> 0, useProject |-> useProject,
   status |-> IF w.err = "" THEN "ok" ELSE w.err,
   ret |-> w.ret, fetch |-> w.fetch, read |-> w.read, errKey |-> w.errKey,
   failed |-> w.failed]

\* the call ends: its effects, and its outcome r left in last
CommitCall(r, w) ==
  /\ globalFile' = w.g
  /\ projectFile' = w.p
  /\ disk' = w.disk
  /\ last' = r
  /\ UNCHANGED <<now, maxClonedRepos, projectDir, running>>

CommitStore(op, ref, useProject, w) ==
  CommitCall(Result(op, ref, useProject, w), w)

Commit(op, ref, w) == CommitStore(op, ref, FALSE, w)

\* a call whose argument is a number: cleanupLRU(count), cleanupStale(days)
CommitArg(op, arg, w) ==
  CommitCall([Result(op, <<>>, FALSE, w) EXCEPT !.arg = arg], w)

\* no call is in progress and the result of the last one has been taken
Idle == last = Quiet

PathOfRef(ref) == join(parseGitHubUrl(ref).owner, parseGitHubUrl(ref).repo)

\* the entry MetadataManager.upsert(repo, true) leaves in the project file
\* when called for a/x at time 0
ProjectEntry == NewMetadata(parseGitHubUrl(RefAX), PathOfRef(RefAX), 0)

\* The metadata files outlive the process.  The manager is constructed with
\* or without a projectDir; the project file, which only upsert and remove
\* with useProject write, is absent or holds one entry.
Init ==
  /\ globalFile = NoFile
  /\ projectDir \in BOOLEAN
  /\ projectFile \in (IF projectDir THEN {NoFile, File(<<ProjectEntry>>)} ELSE {NoFile})
  /\ disk = [q \in Paths |-> "absent"]
  /\ now = 0
  /\ maxClonedRepos \in 1..MaxCapacity
  /\ last = Quiet
  /\ running = <<>>

\* A call that rejects its reference consults no collaborator, and one that
\* hits the cache only writes the store: the outcomes such a call cannot
\* meet are not enumerated.
CloneRepoWith(refs, outcomes, budgets) ==
  /\ Idle
  /\ \E ref \in refs :
       LET parsed   == parseGitHubUrl(ref)
           accepted == parsed.ok /\ validateGitHubNames(parsed.owner, parsed.repo)
           existing == IF accepted
                       THEN findByKey(World(NoFault, NoFault), parsed.key)
                       ELSE NoRepo
           hit      == existing.key # NoKey /\ validateClone(disk, existing.path)
       IN \E outcome \in (IF accepted /\ ~hit THEN outcomes ELSE {"ok"}),
             rmLeft \in (IF accepted /\ ~hit THEN budgets ELSE NoFaults),
             wrLeft \in (IF accepted THEN budgets ELSE NoFaults) :
            Commit("cloneRepo", ref, cloneRepo(World(rmLeft, wrLeft), ref, outcome))

CleanupLRUWith(budgets) ==
  /\ Idle
  /\ \E count \in Counts, rmLeft \in budgets, wrLeft \in budgets :
       CommitArg("cleanupLRU", count, cleanupLRU(World(rmLeft, wrLeft), count))

\* the session.idle hook, and any other caller of cleanupStale
CleanupStaleWith(budgets) ==
  /\ Idle
  /\ \E days \in StaleDays, rmLeft \in budgets, wrLeft \in budgets :
       CommitArg("cleanupStale", days, cleanupStale(World(rmLeft, wrLeft), days))

\* MetadataManager.upsert called on its own, for either scope: with the
\* record cloneRepo would build, or with the entry of the store refreshed as
\* updateLastAccessed does
UpsertWith(refs, budgets) ==
  /\ Idle
  /\ \E ref \in refs, useProject \in BOOLEAN, wrLeft \in budgets :
       LET parsed == parseGitHubUrl(ref)
           w      == World(NoFault, wrLeft)
           old    == findByKey(w, parsed.key)
           repo   == IF old.key = NoKey
                     THEN NewMetadata(parsed, join(parsed.owner, parsed.repo), now)
                     ELSE [old EXCEPT !.lastAccessed = now]
       IN CommitStore("upsert", ref, useProject, upsert(w, repo, useProject))

\* MetadataManager.remove called on its own, for either scope
RemoveWith(refs, budgets) ==
  /\ Idle
  /\ \E ref \in refs, useProject \in BOOLEAN, wrLeft \in budgets :
       CommitStore("remove", ref, useProject,
                   remove(World(NoFault, wrLeft), parseGitHubUrl(ref).key, useProject))

CloneRepo == CloneRepoWith(Refs, CloneOutcomes, FaultBudgets)
CleanupLRU == CleanupLRUWith(FaultBudgets)
CleanupStale == CleanupStaleWith(FaultBudgets)

\* a day passes
Tick ==
  /\ Idle
  /\ now < MaxDays * MsPerDay
  /\ now' = now + MsPerDay
  /\ UNCHANGED <<globalFile, projectFile, disk, maxClonedRepos, projectDir, last, running>>

\* an artifact is deleted from outside
ArtifactLost ==
  \E q \in Paths :
    /\ Idle
    /\ existsSync(disk[q])
    /\ disk' = [disk EXCEPT ![q] = "absent"]
    /\ UNCHANGED <<globalFile, projectFile, now, maxClonedRepos, projectDir, last, running>>

\* the files of a working tree are deleted from outside, .git is left
ArtifactCorrupted ==
  \E q \in Paths :
    /\ Idle
    /\ disk[q] = "intact"
    /\ disk' = [disk EXCEPT ![q] = "nofiles"]
    /\ UNCHANGED <<globalFile, projectFile, now, maxClonedRepos, projectDir, last, running>>

\* the caller takes the result of the call
Return ==
  /\ ~Idle
  /\ last' = Quiet
  /\ UNCHANGED <<globalFile, projectFile, disk, now, maxClonedRepos, projectDir, running>>

Next ==
  \/ CloneRepo
  \/ CleanupLRU
  \/ CleanupStale
  \/ Tick
  \/ ArtifactLost
  \/ ArtifactCorrupted
  \/ Return

Spec == Init /\ [][Next]_vars

(***************************************************************************)
(* The store with every operation that reads or writes it: upsert and      *)
(* remove called directly for either scope, between the calls of the       *)
(* manager.  Two keys, and no collaborator fails in the manager's calls.   *)
(***************************************************************************)
StoreRefs == {RefAX, RefBY}

InitStore ==
  /\ globalFile = NoFile
  /\ projectFile = NoFile
  /\ projectDir \in BOOLEAN
  /\ disk = [q \in Paths |-> "absent"]
  /\ now = 0
  /\ maxClonedRepos \in 1..MaxCapacity
  /\ last = Quiet
  /\ running = <<>>

\* a metadata file is overwritten from outside with something that is no
\* JSON array
FileDamaged ==
  /\ Idle
  /\ \E kind \in DamageKinds :
       \/ globalFile' = Damaged(kind) /\ UNCHANGED projectFile
       \/ projectDir /\ projectFile' = Damaged(kind) /\ UNCHANGED globalFile
  /\ UNCHANGED <<disk, now, maxClonedRepos, projectDir, last, running>>

Upsert == UpsertWith(StoreRefs, FaultBudgets)
Remove == RemoveWith(StoreRefs, FaultBudgets)
CloneRepoStore == CloneRepoWith(StoreRefs, {"ok", "fail"}, NoFaults)
CleanupLRUStore == CleanupLRUWith(NoFaults)
CleanupStaleStore == CleanupStaleWith(NoFaults)

NextStore ==
  \/ Upsert
  \/ Remove
  \/ CloneRepoStore
  \/ CleanupLRUStore
  \/ CleanupStaleStore
  \/ FileDamaged
  \/ Tick
  \/ Return

SpecStore == InitStore /\ [][NextStore]_vars

(***************************************************************************)
(* Clone paths one inside the other: a/. is cloned at the directory of     *)
(* owner a, where a/x is cloned below.  No collaborator fails and nothing  *)
(* changes from outside.                                                   *)
(***************************************************************************)
NestedRefs == {RefAX, RefADot, RefBY}

InitNested ==
  /\ globalFile = NoFile
  /\ projectFile = NoFile
  /\ projectDir \in BOOLEAN
  /\ disk = [q \in PathsOf(NestedRefs) |-> "absent"]
  /\ now = 0
  /\ maxClonedRepos \in 1..MaxCapacity
  /\ last = Quiet
  /\ running = <<>>

CloneRepoNested == CloneRepoWith(NestedRefs, {"ok"}, NoFaults)

NextNested ==
  \/ CloneRepoNested
  \/ CleanupLRUStore
  \/ CleanupStaleStore
  \/ Tick
  \/ Return

SpecNested == InitNested /\ [][NextNested]_vars

(***************************************************************************)
(* The store whose writes may fail, under the manager and under direct     *)
(* calls of upsert and remove.                                             *)
(***************************************************************************)
CloneRepoWrites == CloneRepoWith(StoreRefs, {"ok"}, FaultBudgets)
CleanupLRUWrites == CleanupLRUWith(FaultBudgets)

NextWrites ==
  \/ Upsert
  \/ Remove
  \/ CloneRepoWrites
  \/ CleanupLRUWrites
  \/ Tick
  \/ Return

SpecWrites == InitStore /\ [][NextWrites]_vars

(***************************************************************************)
(* cloneRepo with the order of its steps kept: the outcome of the call     *)
(* carries, after the number of entries it started with, the steps         *)
(* deleteRepo, git clone and upsert in the order they ended, each with the *)
(* number of entries load() returns at that point.                         *)
(***************************************************************************)
Traced(r, trace) ==
  [f \in DOMAIN r \cup {"trace"} |-> IF f = "trace" THEN trace ELSE r[f]]

\* the call ends, and how it started and went on is left with its outcome
CommitTraced(ref, w) ==
  CommitCall(Traced(Result("cloneRepo", ref, FALSE, w),
                    <<[e |-> "cloneRepo", n |-> Len(loadFiles(globalFile, projectFile))]>>
                      \o w.trace),
             w)

\* a hit calls neither git nor rm: the outcomes it cannot meet are not
\* enumerated
CloneRepoTraced ==
  /\ Idle
  /\ \E ref \in GoodRefs :
       LET existing == findByKey(World(NoFault, NoFault), parseGitHubUrl(ref).key)
           hit      == existing.key # NoKey /\ validateClone(disk, existing.path)
       IN \E outcome \in (IF hit THEN {"ok"} ELSE {"ok", "fail"}),
             rmLeft \in (IF hit THEN NoFaults ELSE FaultBudgets),
             wrLeft \in FaultBudgets :
            CommitTraced(ref, cloneRepo(World(rmLeft, wrLeft), ref, outcome))

NextOrder ==
  \/ CloneRepoTraced
  \/ Tick
  \/ ArtifactLost
  \/ ArtifactCorrupted
  \/ Return

SpecOrder == Init /\ [][NextOrder]_vars

(***************************************************************************)
(* The two functions of url-parser.ts called on their own, on strings      *)
(* built from a few owners and repos in every form, and on names of every  *)
(* kind the patterns tell apart.                                           *)
(***************************************************************************)
\* the longest owner /^[a-zA-Z0-9]([a-zA-Z0-9-]{0,37}[a-zA-Z0-9])?$/ accepts
OwnerLimit == 39

RECURSIVE Repeat(_, _)
Repeat(c, n) == IF n = 0 THEN <<>> ELSE <<c>> \o Repeat(c, n - 1)

GitLabPrefix == <<"h","t","t","p","s",":","/","/","g","i","t","l","a","b",".","c","o","m","/">>

UrlOwners == { <<"a">>, <<"a","-","b">>, <<"-","a">>, <<"a","_">> }
UrlRepos ==
  { <<"x">>, <<"x",".","y">>, <<".">>, <<"x",".","g","i","t">>, <<"x","/","y">> }
Forms == {"https", "httpsGit", "http", "httpGit", "ssh", "sshGit", "short"}

\* owner/repo written in one of the forms
Form(f, owner, repo) ==
  LET name == owner \o Slash \o repo
  IN CASE f = "https"    -> HttpsPrefix \o name
       [] f = "httpsGit" -> HttpsPrefix \o name \o DotGit
       [] f = "http"     -> HttpPrefix \o name
       [] f = "httpGit"  -> HttpPrefix \o name \o DotGit
       [] f = "ssh"      -> SshPrefix \o name
       [] f = "sshGit"   -> SshPrefix \o name \o DotGit
       [] f = "short"    -> name

UrlInputs ==
  { Form(f, o, r) : f \in Forms, o \in UrlOwners, r \in UrlRepos } \cup
  { <<>>,                                       \* ""
    <<"x">>,                                    \* no "/"
    <<"n","o","t","-","a","-","u","r","l">>,    \* "not-a-url"
    GitLabPrefix \o RefAX,                      \* another host
    <<"a","/">>, <<"/","x">>,                   \* a name missing
    <<" ">> \o RefAX, RefAX \o <<"\n">>,         \* white space around a/x
    HttpsPrefix \o RefAX \o <<"\n","y">>,       \* a line break in the repo
    <<" ">>
  }

NameOwners ==
  { <<>>, <<"a">>, <<"-">>, <<"a","-">>, <<"-","a">>, <<"a","-","b">>,
    <<"a","-","-","b">>, <<"a","_","b">>, <<"a",".","b">>, <<"A","0">>,
    Repeat("a", OwnerLimit - 1), Repeat("a", OwnerLimit),
    Repeat("a", OwnerLimit + 1),
    Repeat("a", OwnerLimit - 1) \o <<"-">> }
NameRepos ==
  { <<>>, <<"x">>, <<".">>, <<".",".">>, <<"n","e","x","t",".","j","s">>,
    <<"x","_","-",".","Y","9">>, <<"x","/","y">>, <<"x"," ">> }

NoResult == << <<"?">> >>

ParseGitHubUrl ==
  /\ Idle
  /\ \E input \in UrlInputs :
       LET parsed == parseGitHubUrl(input)
       IN last' = [Quiet EXCEPT
                     !.op = "parseGitHubUrl",
                     !.ref = input,
                     !.status = IF parsed.ok THEN "ok" ELSE "null",
                     !.ret = IF parsed.ok
                             THEN <<parsed.owner, parsed.repo, parsed.key, parsed.url>>
                             ELSE NoResult]
  /\ UNCHANGED <<globalFile, projectFile, disk, now, maxClonedRepos, projectDir, running>>

ValidateGitHubNames ==
  /\ Idle
  /\ \E owner \in NameOwners, repo \in NameRepos :
       last' = [Quiet EXCEPT
                  !.op = "validateGitHubNames",
                  !.ret = <<owner, repo>>,
                  !.status = IF validateGitHubNames(owner, repo) THEN "true" ELSE "false"]
  /\ UNCHANGED <<globalFile, projectFile, disk, now, maxClonedRepos, projectDir, running>>

InitParser ==
  /\ globalFile = NoFile
  /\ projectFile = NoFile
  /\ projectDir = FALSE
  /\ disk = [q \in Paths |-> "absent"]
  /\ now = 0
  /\ maxClonedRepos = MaxCapacity
  /\ last = Quiet
  /\ running = <<>>

NextParser ==
  \/ ParseGitHubUrl
  \/ ValidateGitHubNames
  \/ Return

SpecParser == InitParser /\ [][NextParser]_vars

(***************************************************************************)
(* Calls that overlap within one process.  The tool's execute may be       *)
(* called again before an earlier cloneRepo has returned, and the          *)
(* session.idle hook runs cleanupStale whenever the host signals it: the   *)
(* calls then interleave at their awaits.  A step here is what a call does *)
(* from one await of a collaborator (a read or write of the metadata file, *)
(* rm, find, git clone) to the next.  No rm and no write fails, and the    *)
(* manager has no projectDir.                                              *)
(***************************************************************************)
\* the callers of cloneRepo, of which the second is the one that calls
\* while the first has called, and the hook that calls cleanupStale
Tools == {"execute-1", "execute-2"}
Hook == "session.idle"
Callers == Tools \cup {Hook}
AsyncRefs == {RefAX, RefBY}

NoCall ==
  [op |-> "none", pc |-> "idle", ref |-> <<>>, key |-> NoKey, path |-> NoPath,
   existing |-> NoRepo, all |-> <<>>, todo |-> <<>>, victim |-> NoRepo,
   entry |-> NoRepo, after |-> "idle", ret |-> NoPath, status |-> "ok",
   fetch |-> "none", with |-> {}]

InFlight(c) == running[c].pc \notin {"idle", "done"}
\* one more call may start
MayStart == Cardinality({ c \in Callers : InFlight(c) }) < MaxOverlap

\* the call of caller c goes on with frame f
Goto(c, f) == running' = [running EXCEPT ![c] = f]

\* what load() returns now
Loaded == loadFiles(globalFile, projectFile)
Found(key) ==
  IF findIndex(Loaded, key) > 0 THEN Loaded[findIndex(Loaded, key)] ELSE NoRepo

\* for (const repo of ...) await this.deleteRepo(repo.key): the next key to
\* delete, or the statement after the loop
NextDelete(f) ==
  IF f.todo = <<>> THEN [f EXCEPT !.pc = f.after, !.victim = NoRepo, !.all = <<>>]
  ELSE [f EXCEPT !.pc = "deleteRepo", !.victim = NoRepo, !.all = <<>>]

KeysIn(s) == [i \in 1..Len(s) |-> s[i].key]

\* execute calls cloneRepo(ref); the reference parses and validates
StartClone(c) ==
  /\ c \in Tools
  /\ running[c].pc = "idle"
  /\ MayStart
  /\ c = "execute-2" => running["execute-1"].pc # "idle"
  /\ \E ref \in AsyncRefs :
       LET parsed == parseGitHubUrl(ref)
           others == { d \in Tools \ {c} : InFlight(d) }
       IN running' = [d \in Callers |->
            IF d = c
            THEN [NoCall EXCEPT !.op = "cloneRepo", !.pc = "findByKey", !.ref = ref,
                                !.key = parsed.key,
                                !.path = join(parsed.owner, parsed.repo),
                                !.with = others]
            ELSE IF d \in others
            THEN [running[d] EXCEPT !.with = @ \cup {c}]
            ELSE running[d]]
  /\ UNCHANGED <<globalFile, projectFile, disk, now, maxClonedRepos, projectDir, last>>

\* the host signals session.idle: cleanupStale(config.autoCleanupDays), up
\* to its await of metadata.load()
StartStale(c) ==
  /\ c = Hook
  /\ running[c].pc = "idle"
  /\ MayStart
  /\ Goto(c, [NoCall EXCEPT !.op = "cleanupStale", !.pc = "cleanupStale"])
  /\ UNCHANGED <<globalFile, projectFile, disk, now, maxClonedRepos, projectDir, last>>

\* const existing = await this.metadata.findByKey(parsed.key)
FindExisting(c) ==
  /\ running[c].pc = "findByKey"
  /\ LET f == running[c]
     IN Goto(c, [f EXCEPT !.existing = Found(f.key),
                          !.pc = IF Found(f.key).key # NoKey
                                 THEN "validateClone" ELSE "ensureCapacity"])
  /\ UNCHANGED <<globalFile, projectFile, disk, now, maxClonedRepos, projectDir, last>>

\* const isValid = await this.validateClone(existing.path)
ValidateExisting(c) ==
  /\ running[c].pc = "validateClone"
  /\ LET f == running[c]
     IN IF validateClone(disk, f.existing.path)
        THEN Goto(c, [f EXCEPT !.pc = "updateLastAccessed"])
        ELSE Goto(c, NextDelete([f EXCEPT !.todo = <<f.key>>, !.after = "ensureCapacity"]))
  /\ UNCHANGED <<globalFile, projectFile, disk, now, maxClonedRepos, projectDir, last>>

\* updateLastAccessed: const repo = await this.metadata.findByKey(key); the
\* path returned afterwards is existing.path
TouchExisting(c) ==
  /\ running[c].pc = "updateLastAccessed"
  /\ LET f    == running[c]
         repo == Found(f.key)
     IN IF repo.key # NoKey
        THEN Goto(c, [f EXCEPT !.entry = [repo EXCEPT !.lastAccessed = now],
                               !.ret = f.existing.path,
                               !.after = "return", !.pc = "upsert"])
        ELSE Goto(c, [f EXCEPT !.ret = f.existing.path, !.pc = "return"])
  /\ UNCHANGED <<globalFile, projectFile, disk, now, maxClonedRepos, projectDir, last>>

\* upsert: const all = await this.load()
UpsertLoad(c) ==
  /\ running[c].pc = "upsert"
  /\ Goto(c, [running[c] EXCEPT !.all = Loaded, !.pc = "upsertSave"])
  /\ UNCHANGED <<globalFile, projectFile, disk, now, maxClonedRepos, projectDir, last>>

\* upsert: all[index] = repo or all.push(repo); await this.save(all)
UpsertSave(c) ==
  /\ running[c].pc = "upsertSave"
  /\ LET f     == running[c]
         index == findIndex(f.all, f.entry.key)
         next  == IF index > 0 THEN [f.all EXCEPT ![index] = f.entry]
                  ELSE Append(f.all, f.entry)
     IN /\ globalFile' = File(next)
        /\ Goto(c, [f EXCEPT !.pc = f.after, !.all = <<>>, !.entry = NoRepo])
  /\ UNCHANGED <<projectFile, disk, now, maxClonedRepos, projectDir, last>>

\* ensureCapacity: const all = await this.metadata.load(), and the test of
\* all.length
EnsureCapacity(c) ==
  /\ running[c].pc = "ensureCapacity"
  /\ LET f == running[c]
     IN IF Len(Loaded) >= maxClonedRepos
        THEN Goto(c, [f EXCEPT !.all = Loaded, !.pc = "cleanupLRU"])
        ELSE Goto(c, [f EXCEPT !.pc = "git clone"])
  /\ UNCHANGED <<globalFile, projectFile, disk, now, maxClonedRepos, projectDir, last>>

\* cleanupLRU(all.length - maxClonedRepos + 1): const sorted = await
\* this.metadata.getSortedByLRU()
CleanupLRUSorted(c) ==
  /\ running[c].pc = "cleanupLRU"
  /\ LET f      == running[c]
         count  == Len(f.all) - maxClonedRepos + 1
         sorted == SortByLastAccessed(Loaded, <<>>)
     IN Goto(c, NextDelete([f EXCEPT
                  !.todo = KeysIn(SubSeq(sorted, 1, Min(count, Len(sorted)))),
                  !.after = "git clone"]))
  /\ UNCHANGED <<globalFile, projectFile, disk, now, maxClonedRepos, projectDir, last>>

\* cleanupStale: const all = await this.metadata.load(), and the filter
CleanupStaleLoad(c) ==
  /\ running[c].pc = "cleanupStale"
  /\ \E days \in StaleDays :
       LET IsStale(repo) == repo.lastAccessed < now - days * MsPerDay
       IN Goto(c, NextDelete([running[c] EXCEPT
                    !.todo = KeysIn(SelectSeq(Loaded, IsStale)),
                    !.after = "return"]))
  /\ UNCHANGED <<globalFile, projectFile, disk, now, maxClonedRepos, projectDir, last>>

\* deleteRepo: const repo = await this.metadata.findByKey(key)
DeleteFind(c) ==
  /\ running[c].pc = "deleteRepo"
  /\ LET f    == running[c]
         repo == Found(Head(f.todo))
     IN IF repo.key = NoKey
        THEN Goto(c, NextDelete([f EXCEPT !.todo = Tail(f.todo)]))
        ELSE Goto(c, [f EXCEPT !.victim = repo, !.pc = "rm"])
  /\ UNCHANGED <<globalFile, projectFile, disk, now, maxClonedRepos, projectDir, last>>

\* deleteRepo: if (existsSync(repo.path)) await rm -rf repo.path
DeleteRm(c) ==
  /\ running[c].pc = "rm"
  /\ LET f == running[c]
     IN /\ disk' = IF existsSync(disk[f.victim.path])
                   THEN RemoveTree(disk, f.victim.path) ELSE disk
        /\ Goto(c, [f EXCEPT !.pc = "remove"])
  /\ UNCHANGED <<globalFile, projectFile, now, maxClonedRepos, projectDir, last>>

\* remove: const all = await this.load()
RemoveLoad(c) ==
  /\ running[c].pc = "remove"
  /\ Goto(c, [running[c] EXCEPT !.all = Loaded, !.pc = "removeSave"])
  /\ UNCHANGED <<globalFile, projectFile, disk, now, maxClonedRepos, projectDir, last>>

\* remove: await this.save(all.filter(...)), and deleteRepo returns
RemoveSave(c) ==
  /\ running[c].pc = "removeSave"
  /\ LET f == running[c]
     IN /\ globalFile' = File(SelectSeqKeyNot(f.all, f.victim.key))
        /\ Goto(c, NextDelete([f EXCEPT !.todo = Tail(f.todo)]))
  /\ UNCHANGED <<projectFile, disk, now, maxClonedRepos, projectDir, last>>

\* git clone started only when no other call is cloning into the same path
GitCloneStart_SingleFlight(c) ==
  /\ running[c].pc = "git clone"
  /\ \A d \in Callers \ {c} :
       ~(running[d].pc = "cloning" /\ running[d].path = running[c].path)
  /\ LET f == running[c]
     IN IF NonEmpty(disk, f.path)
        THEN /\ Goto(c, [f EXCEPT !.fetch = "failed", !.pc = "catch"])
             /\ UNCHANGED disk
        ELSE /\ disk' = [disk EXCEPT ![f.path] = "dir"]
             /\ Goto(c, [f EXCEPT !.pc = "cloning"])
  /\ UNCHANGED <<globalFile, projectFile, now, maxClonedRepos, projectDir, last>>

\* git clone is started: it refuses a destination that is not empty, and
\* creates it otherwise
GitCloneStart(c) ==
  /\ running[c].pc = "git clone"
  /\ LET f == running[c]
     IN IF NonEmpty(disk, f.path)
        THEN /\ Goto(c, [f EXCEPT !.fetch = "failed", !.pc = "catch"])
             /\ UNCHANGED disk
        ELSE /\ disk' = [disk EXCEPT ![f.path] = "dir"]
             /\ Goto(c, [f EXCEPT !.pc = "cloning"])
  /\ UNCHANGED <<globalFile, projectFile, now, maxClonedRepos, projectDir, last>>

\* git clone ends: with a working tree at the destination, or with an
\* error; const now = Date.now() and the metadata follow a success
GitCloneEnd(c) ==
  /\ running[c].pc = "cloning"
  /\ LET f == running[c]
     IN \E outcome \in {"ok", "fail"} :
          IF outcome = "ok"
          THEN /\ disk' = [disk EXCEPT ![f.path] = "intact"]
               /\ Goto(c, [f EXCEPT !.fetch = "ok",
                                    !.entry = NewMetadata(parseGitHubUrl(f.ref), f.path, now),
                                    !.ret = f.path,
                                    !.after = "return", !.pc = "upsert"])
          ELSE /\ UNCHANGED disk
               /\ Goto(c, [f EXCEPT !.fetch = "failed", !.pc = "catch"])
  /\ UNCHANGED <<globalFile, projectFile, now, maxClonedRepos, projectDir, last>>

\* catch: if (existsSync(repoPath)) await rm -rf repoPath; throw
CatchCleanup(c) ==
  /\ running[c].pc = "catch"
  /\ LET f == running[c]
     IN /\ disk' = IF existsSync(disk[f.path]) THEN RemoveTree(disk, f.path) ELSE disk
        /\ Goto(c, [f EXCEPT !.status = "FetchFailed", !.pc = "return"])
  /\ UNCHANGED <<globalFile, projectFile, now, maxClonedRepos, projectDir, last>>

\* the call returns or throws to its caller; what cleanupStale throws the
\* hook logs, and nothing is kept of it
ReturnCall(c) ==
  /\ running[c].pc = "return"
  /\ LET f == running[c]
     IN IF c = Hook
        THEN Goto(c, NoCall)
        ELSE Goto(c, [NoCall EXCEPT !.op = f.op, !.pc = "done", !.ref = f.ref,
                                    !.key = f.key, !.path = f.path, !.ret = f.ret,
                                    !.status = f.status, !.fetch = f.fetch,
                                    !.with = f.with])
  /\ UNCHANGED <<globalFile, projectFile, disk, now, maxClonedRepos, projectDir, last>>

\* the callers have taken their results and nothing is in progress
Collect ==
  /\ \A c \in Callers : ~InFlight(c)
  /\ \E c \in Callers : running[c].pc = "done"
  /\ running' = [c \in Callers |-> NoCall]
  /\ UNCHANGED <<globalFile, projectFile, disk, now, maxClonedRepos, projectDir, last>>

\* a day passes between calls: a call takes far less
TickBetweenCalls ==
  /\ \A c \in Callers : ~InFlight(c)
  /\ Tick

InitAsync ==
  /\ globalFile = NoFile
  /\ projectFile = NoFile
  /\ projectDir = FALSE
  /\ disk = [q \in PathsOf(AsyncRefs) |-> "absent"]
  /\ now = 0
  /\ maxClonedRepos \in 1..MaxCapacity
  /\ last = Quiet
  /\ running = [c \in Callers |-> NoCall]

NextAsync ==
  \/ \E c \in Callers :
       \/ StartClone(c)
       \/ StartStale(c)
       \/ FindExisting(c)
       \/ ValidateExisting(c)
       \/ TouchExisting(c)
       \/ UpsertLoad(c)
       \/ UpsertSave(c)
       \/ EnsureCapacity(c)
       \/ CleanupLRUSorted(c)
       \/ CleanupStaleLoad(c)
       \/ DeleteFind(c)
       \/ DeleteRm(c)
       \/ RemoveLoad(c)
       \/ RemoveSave(c)
       \/ GitCloneStart(c)
       \/ GitCloneEnd(c)
       \/ CatchCleanup(c)
       \/ ReturnCall(c)
  \/ Collect
  \/ TickBetweenCalls

SpecAsync == InitAsync /\ [][NextAsync]_vars

(***************************************************************************)
(* What the claims speak of.                                               *)
(***************************************************************************)
\* what load() returns in the current state
Store == loadFiles(globalFile, projectFile)

KeysOf(s) == { s[i].key : i \in 1..Len(s) }
HasKey(s, key) == key \in KeysOf(s)
EntryOf(s, key) == s[findIndex(s, key)]

KeyOfRef(ref) == parseGitHubUrl(ref).key
\* the references cloneRepo accepts
Acceptable(ref) ==
  /\ parseGitHubUrl(ref).ok
  /\ validateGitHubNames(parseGitHubUrl(ref).owner, parseGitHubUrl(ref).repo)

\* this step is a call of the operation, from start to end
Calls(op) == Idle /\ last'.op = op

\* the call of cloneRepo finds no usable entry: none, or one whose artifact
\* does not validate
Miss(ref) ==
  \/ ~HasKey(Store, KeyOfRef(ref))
  \/ ~validateClone(disk, EntryOf(Store, KeyOfRef(ref)).path)

\* C1: every call of cloneRepo that starts with at most maxClonedRepos
\* entries in the merged store ends, whether it returns or throws, with at
\* most maxClonedRepos entries.
C1_Capacity ==
  [][ (Calls("cloneRepo") /\ Len(Store) <= maxClonedRepos)
        => Len(Store') <= maxClonedRepos ]_vars

\* the key and the clone path of the reference of the call that ends in
\* the next state
CallKey == KeyOfRef(last'.ref)
CallPath == PathOfRef(last'.ref)

\* C2: when a call of cloneRepo on a miss evicts, every entry it removes was
\* accessed no later than every entry it keeps; and a call that returns,
\* started on a miss with exactly maxClonedRepos entries, leaves the store
\* without its least recently used entry and with the new one (capacity 2,
\* A, B, then C: A is gone, B and C are there).
C2_EvictsOldest ==
  [][ (Calls("cloneRepo") /\ Acceptable(last'.ref) /\ Miss(last'.ref)
         /\ Len(Store) >= maxClonedRepos)
        => LET removed == (KeysOf(Store) \ KeysOf(Store')) \ {CallKey}
               kept    == (KeysOf(Store) \cap KeysOf(Store')) \ {CallKey}
               lru     == SortByLastAccessed(Store, <<>>)[1].key
           IN /\ \A e \in removed, k \in kept :
                   EntryOf(Store, k).lastAccessed >= EntryOf(Store, e).lastAccessed
              /\ (last'.status = "ok" /\ ~HasKey(Store, CallKey)
                    /\ Len(Store) = maxClonedRepos)
                   => KeysOf(Store') = (KeysOf(Store) \ {lru}) \cup {CallKey} ]_vars

C4_SelfHealing ==
  [][ (Calls("cloneRepo") /\ Acceptable(last'.ref)
         /\ HasKey(Store, CallKey)
         /\ ~validateClone(disk, EntryOf(Store, CallKey).path)
         /\ last'.failed = {})
        => /\ last'.status = "ok"
           /\ last'.fetch = "ok"
           /\ Cardinality({ i \in 1..Len(Store') : Store'[i].key = CallKey }) = 1
           /\ EntryOf(Store', CallKey)
                = NewMetadata(parseGitHubUrl(last'.ref), last'.ret, now) ]_vars

\* C5: a call of cloneRepo in which git clone fails throws FetchFailed and
\* leaves no artifact at the clone path and no entry for the key in the
\* merged store.
C5_FailedFetchLeavesNothing ==
  [][ (Calls("cloneRepo") /\ last'.fetch = "failed")
        => /\ last'.status = "FetchFailed"
           /\ ~existsSync(disk'[CallPath])
           /\ ~HasKey(Store', CallKey) ]_vars

\* references the specification rejects: one that is no GitHub reference,
\* and one whose owner starts with a hyphen
Rejected == {<<"x">>, <<"-", "a", "/", "x">>}

\* C6: a call of cloneRepo with a reference that does not parse, or whose
\* names do not validate, throws InvalidReference without reading the
\* store, running git clone or any other collaborator, and leaves both
\* metadata files and the clone directories as they were.
C6_InvalidReference ==
  [][ (Calls("cloneRepo") /\ last'.ref \in Rejected)
        => /\ last'.status = "InvalidReference"
           /\ ~last'.read
           /\ last'.fetch = "none"
           /\ last'.failed = {}
           /\ UNCHANGED <<globalFile, projectFile, disk>> ]_vars

\* a reference that parses was rejected for its names while the store held
\* an entry and its artifact
C6_Witness ==
  /\ last.op = "cloneRepo"
  /\ last.status = "InvalidReference"
  /\ parseGitHubUrl(last.ref).ok
  /\ \E i \in 1..Len(Store) : disk[Store[i].path] = "intact"

\* C7: when rm -rf fails in deleteRepo, whether called by cleanupLRU, by
\* cleanupStale or by cloneRepo for an entry that does not validate, the
\* call throws that error and the entry of the key is in the merged store
\* as it was, and so is its artifact.
C7_FailedRmKeepsRecord ==
  [][ (Idle /\ last'.errKey # NoKey /\ "rm" \in last'.failed)
        => /\ last'.status = "DeletionFailed"
           /\ HasKey(Store, last'.errKey)
           /\ HasKey(Store', last'.errKey)
           /\ EntryOf(Store', last'.errKey) = EntryOf(Store, last'.errKey)
           /\ disk'[EntryOf(Store, last'.errKey).path]
                = disk[EntryOf(Store, last'.errKey).path] ]_vars

\* cloneRepo threw because rm -rf failed on the artifact of an entry that
\* did not validate
C7_Witness ==
  /\ last.op = "cloneRepo"
  /\ last.status = "DeletionFailed"
  /\ last.errKey = KeyOfRef(last.ref)
  /\ "rm" \in last.failed
  /\ HasKey(Store, last.errKey)

\* C8: when deleteRepo throws for a key whose artifact was there, the call
\* does not end with the entry of the key in the merged store and its
\* artifact gone.
C8_NoOrphanRecord ==
  [][ (Idle /\ last'.errKey # NoKey
         /\ existsSync(disk[EntryOf(Store, last'.errKey).path]))
        => ~(/\ HasKey(Store', last'.errKey)
             /\ ~existsSync(disk'[EntryOf(Store', last'.errKey).path])) ]_vars

\* C9: load() never returns two entries with the same key.
C9_KeyUnique ==
  \A i, j \in 1..Len(Store) : Store[i].key = Store[j].key => i = j

\* both files hold an entry for the same key, and the merged store holds
\* another key besides
C9_Witness ==
  /\ \E i \in 1..Len(loadFromPath(globalFile)) :
       \E j \in 1..Len(loadFromPath(projectFile)) :
         loadFromPath(globalFile)[i].key = loadFromPath(projectFile)[j].key
  /\ projectDir
  /\ Len(Store) >= 2

\* C10: every entry of the merged store, and of either file, has
\* lastAccessed >= clonedAt.
C10_AccessedAfterCloned ==
  /\ \A i \in 1..Len(Store) : Store[i].lastAccessed >= Store[i].clonedAt
  /\ \A i \in 1..Len(loadFromPath(globalFile)) :
       loadFromPath(globalFile)[i].lastAccessed >= loadFromPath(globalFile)[i].clonedAt
  /\ \A i \in 1..Len(loadFromPath(projectFile)) :
       loadFromPath(projectFile)[i].lastAccessed >= loadFromPath(projectFile)[i].clonedAt

\* a cache hit on a later day refreshed lastAccessed of an entry
C10_Witness ==
  /\ last.op = "cloneRepo"
  /\ last.status = "ok"
  /\ last.fetch = "none"
  /\ \E i \in 1..Len(Store) :
       Store[i].key = KeyOfRef(last.ref) /\ Store[i].lastAccessed > Store[i].clonedAt

\* the keys of the entries of s last accessed before the cutoff
StaleKeys(s, cutoff) ==
  { s[i].key : i \in { j \in 1..Len(s) : s[j].lastAccessed < cutoff } }

\* C11: a call of cleanupStale(days) that returns leaves no record and no
\* artifact of any entry last accessed before now - days, and leaves the
\* record and the artifact of every other entry as they were.
C11_EvictStaleExact ==
  [][ (Calls("cleanupStale") /\ last'.status = "ok")
        => LET stale == StaleKeys(Store, now - last'.arg * MsPerDay)
           IN /\ KeysOf(Store') = KeysOf(Store) \ stale
              /\ \A k \in stale : ~existsSync(disk'[EntryOf(Store, k).path])
              /\ \A k \in KeysOf(Store) \ stale :
                   /\ EntryOf(Store', k) = EntryOf(Store, k)
                   /\ disk'[EntryOf(Store, k).path] = disk[EntryOf(Store, k).path] ]_vars

\* the key and the clone path of every reference cloneRepo accepts
Identities ==
  { [key |-> KeyOfRef(r), path |-> PathOfRef(r)] :
      r \in { q \in Refs \cup NestedRefs : Acceptable(q) } }

\* a key has an entry in the merged store exactly when a clone is at its
\* path, and the entry records that path
StoreMatchesDisk ==
  \A id \in { i \in Identities : i.path \in DOMAIN disk } :
    /\ HasKey(Store, id.key) <=> HasGitDir(disk[id.path])
    /\ HasKey(Store, id.key) => EntryOf(Store, id.key).path = id.path

\* C12: a call of cloneRepo, cleanupLRU or cleanupStale in which no
\* collaborator fails, started where every key has an entry exactly when
\* its artifact is there, ends in such a state.
C12_StoreMatchesDisk ==
  [][ (Idle /\ last'.op \in {"cloneRepo", "cleanupLRU", "cleanupStale"}
         /\ last'.failed = {} /\ StoreMatchesDisk)
        => StoreMatchesDisk' ]_vars

\* the collection a scope holds: the array in its file, nothing when the
\* file is missing, cannot be read or parsed, or holds no array
Collection(f) == IF f.exists /\ f.json = "array" THEN f.data ELSE <<>>
GlobalScope == Collection(globalFile)
ProjectScope == IF projectDir THEN Collection(projectFile) ELSE <<>>

\* C13: load() returns one entry for every key of either scope and no
\* other: the entry of the project scope when the key is there, else the
\* entry of the global scope.
C13_LoadMerges ==
  /\ KeysOf(Store) = KeysOf(GlobalScope) \cup KeysOf(ProjectScope)
  /\ \A k \in KeysOf(ProjectScope) : EntryOf(Store, k) = EntryOf(ProjectScope, k)
  /\ \A k \in KeysOf(GlobalScope) \ KeysOf(ProjectScope) :
       EntryOf(Store, k) = EntryOf(GlobalScope, k)

\* the two scopes hold different entries for one key, and load() returns
\* the one of the project scope
C13_Witness ==
  \E k \in KeysOf(GlobalScope) \cap KeysOf(ProjectScope) :
    /\ EntryOf(GlobalScope, k) # EntryOf(ProjectScope, k)
    /\ EntryOf(Store, k) = EntryOf(ProjectScope, k)

\* the owner and the repo each valid reference of Refs names
NamedBy ==
  (RefAX :> [owner |-> <<"a">>, repo |-> <<"x">>]) @@
  (RefBY :> [owner |-> <<"b">>, repo |-> <<"y">>]) @@
  (RefCZ :> [owner |-> <<"c">>, repo |-> <<"z">>]) @@
  (HttpsPrefix \o RefAX \o DotGit :> [owner |-> <<"a">>, repo |-> <<"x">>])

\* the entry the specification describes for owner/repo fetched at time t:
\* key owner/repo, url https://github.com/owner/repo.git, path
\* <base>/owner/repo, both timestamps t
EntryFor(n, t) ==
  [key |-> n.owner \o <<"/">> \o n.repo,
   url |-> <<"h","t","t","p","s",":","/","/","g","i","t","h","u","b",".","c","o","m","/">>
             \o n.owner \o <<"/">> \o n.repo \o <<".","g","i","t">>,
   path |-> <<n.owner, n.repo>>,
   clonedAt |-> t,
   lastAccessed |-> t]

\* C14: a call of cloneRepo that returns, for a key without an entry, adds
\* the key and no other to the merged store, with one entry: key
\* owner/repo, url https://github.com/owner/repo.git, path
\* <base>/owner/repo, which is the path returned, and clonedAt =
\* lastAccessed = now.
C14_MissAddsOneEntry ==
  [][ (Calls("cloneRepo") /\ last'.ref \in DOMAIN NamedBy /\ last'.status = "ok"
         /\ ~HasKey(Store, EntryFor(NamedBy[last'.ref], now).key))
        => LET e == EntryFor(NamedBy[last'.ref], now)
           IN /\ KeysOf(Store') \ KeysOf(Store) = {e.key}
              /\ Cardinality({ i \in 1..Len(Store') : Store'[i].key = e.key }) = 1
              /\ EntryOf(Store', e.key) = e
              /\ last'.ret = e.path ]_vars

\* a reference given as a web URL was cloned on a later day into a store
\* that held another entry
C14_Witness ==
  /\ last.op = "cloneRepo"
  /\ last.ref = HttpsPrefix \o RefAX \o DotGit
  /\ last.status = "ok"
  /\ last.fetch = "ok"
  /\ now > 0
  /\ Len(Store) = 2
  /\ EntryOf(Store, RefAX).clonedAt = now

\* owners and repos that are legal names, among those the inputs are built
\* from
LegalUrlOwners == { <<"a">>, <<"a","-","b">> }
LegalUrlRepos == { <<"x">>, <<"x",".","y">>, <<".">>, <<"x",".","g","i","t">> }

\* the identity of owner/repo: owner, repo, key, canonical url
IdentityOf(owner, repo) ==
  <<owner, repo, owner \o <<"/">> \o repo,
    <<"h","t","t","p","s",":","/","/","g","i","t","h","u","b",".","c","o","m","/">>
      \o owner \o <<"/">> \o repo \o <<".","g","i","t">>>>

\* C15 as claimed: parseGitHubUrl, given a legal owner and repo in any of
\* the forms (web URL, SSH, each with or without .git, shorthand), returns
\* the key owner/repo and the url https://github.com/owner/repo.git.
C15_FormsAgree ==
  \A f \in Forms, o \in LegalUrlOwners, r \in LegalUrlRepos :
    (last.op = "parseGitHubUrl" /\ last.ref = Form(f, o, r))
      => last.status = "ok" /\ last.ret = IdentityOf(o, r)

\* C15 as amended: the same for every legal owner and every legal repo
\* whose name does not end in ".git".
C15_FormsAgreeUnlessGit ==
  \A f \in Forms, o \in LegalUrlOwners,
     r \in { q \in LegalUrlRepos : ~EndsWith(q, <<".","g","i","t">>) } :
    (last.op = "parseGitHubUrl" /\ last.ref = Form(f, o, r))
      => last.status = "ok" /\ last.ret = IdentityOf(o, r)

\* git@github.com:a-b/x.y.git was parsed
C15_Witness ==
  /\ last.op = "parseGitHubUrl"
  /\ last.ref = SshPrefix \o <<"a","-","b","/","x",".","y",".","g","i","t">>
  /\ last.ret = IdentityOf(<<"a","-","b">>, <<"x",".","y">>)

\* the three recognized shapes, as written: a web URL on the github host,
\* an SSH remote on the github host, the shorthand owner/repo
WebShape(s) ==
  \E prefix \in {HttpsPrefix, HttpPrefix} :
    /\ StartsWith(s, prefix)
    /\ LET rest == Drop(s, Len(prefix))
       IN FirstSlash(rest) > 1 /\ Len(rest) > FirstSlash(rest)

SshShape(s) ==
  /\ StartsWith(s, SshPrefix)
  /\ LET rest == Drop(s, Len(SshPrefix))
     IN FirstSlash(rest) > 1 /\ Len(rest) > FirstSlash(rest)

ShorthandShape(s) ==
  \E i \in 2..(Len(s) - 1) :
    /\ s[i] = "/"
    /\ AllIn(SubSeq(s, 1, i - 1), ShortOwnerChar)
    /\ AllIn(Drop(s, i), RepoChar)

MatchesShape(s) == WebShape(s) \/ SshShape(s) \/ ShorthandShape(s)

\* C16 as claimed: parseGitHubUrl returns no result for every input string
\* that matches none of the three recognized shapes.
C16_NoShapeNoResult ==
  (last.op = "parseGitHubUrl" /\ ~MatchesShape(last.ref)) => last.status = "null"

\* C16 as amended: parseGitHubUrl returns no result for every input string
\* that, with the white space around it removed, matches none of the three
\* recognized shapes.
C16_NoShapeAfterTrimNoResult ==
  (last.op = "parseGitHubUrl" /\ ~MatchesShape(Trim(last.ref)))
    => last.status = "null" /\ last.ret = NoResult

\* https://gitlab.com/a/x was given and nothing came back
C16_Witness ==
  /\ last.op = "parseGitHubUrl"
  /\ last.ref = GitLabPrefix \o RefAX
  /\ last.status = "null"

\* an owner of 1 to 39 letters, digits and hyphens, no hyphen first or last
LegalOwner(owner) ==
  /\ Len(owner) \in 1..OwnerLimit
  /\ \A i \in 1..Len(owner) : owner[i] \in AlphaNum \cup {"-"}
  /\ Head(owner) # "-"
  /\ owner[Len(owner)] # "-"

\* a non-empty repo of letters, digits, dot, underscore and hyphen
LegalRepo(repo) ==
  /\ repo # <<>>
  /\ \A i \in 1..Len(repo) : repo[i] \in AlphaNum \cup {".", "_", "-"}

\* the input is a web or SSH form
WebOrSsh(input) ==
  \E prefix \in {HttpsPrefix, HttpPrefix, SshPrefix} : StartsWith(Trim(input), prefix)

\* C17: validateGitHubNames accepts (owner, repo) exactly when the owner is
\* 1 to 39 letters, digits and hyphens with no hyphen first or last and the
\* repo is a non-empty string of letters, digits, dot, underscore and
\* hyphen; an identity parseGitHubUrl derives from a web or SSH form whose
\* repo contains a slash or whose owner starts with a hyphen is rejected.
C17_ValidationExact ==
  /\ last.op = "validateGitHubNames"
       => (last.status = "true" <=> LegalOwner(last.ret[1]) /\ LegalRepo(last.ret[2]))
  /\ (/\ last.op = "parseGitHubUrl"
      /\ last.status = "ok"
      /\ WebOrSsh(last.ref)
      /\ \/ Head(last.ret[1]) = "-"
         \/ \E i \in 1..Len(last.ret[2]) : last.ret[2][i] = "/")
       => ~validateGitHubNames(last.ret[1], last.ret[2])

\* an owner of 39 characters was accepted
C17_Witness ==
  /\ last.op = "validateGitHubNames"
  /\ last.ret = <<Repeat("a", OwnerLimit), <<"x","_","-",".","Y","9">>>>
  /\ last.status = "true"

\* C18: a call in which a write of the metadata file failed ends with an
\* error: cloneRepo returns no path, on the hit path and on the miss path,
\* and upsert and remove throw the write error to their caller.
C18_WriteFailureSurfaced ==
  "write" \in last.failed =>
    /\ last.status # "ok"
    /\ last.ret = NoPath
    /\ last.op \in {"upsert", "remove"} => last.status = "StoreUnavailable"

\* the fetch succeeded and the write of the new entry failed
C18_Witness ==
  /\ last.op = "cloneRepo"
  /\ last.fetch = "ok"
  /\ "write" \in last.failed
  /\ last.status # "ok"

\* the entries capacity enforcement finds in a call of cloneRepo on a miss:
\* those of the other keys, an entry of the key of the call that did not
\* validate having been deleted before
OtherKeys == KeysOf(Store) \ {CallKey}
\* how many of them the call removed
Evicted == Cardinality(OtherKeys \ KeysOf(Store'))
\* currentCount - maximum + 1, at most currentCount, when the maximum is
\* reached, and none below it
Needed(currentCount, maximum) ==
  IF currentCount >= maximum
  THEN Min(currentCount - maximum + 1, currentCount)
  ELSE 0

\* C19: a call of cloneRepo on a miss in which no rm and no write fails
\* removes exactly min(currentCount - maximum + 1, currentCount) entries
\* when currentCount >= maximum and none otherwise; and when it returns,
\* having started with exactly maxClonedRepos entries, it ends with
\* maxClonedRepos entries.
C19_EvictsNoMoreThanNeeded ==
  [][ (/\ Calls("cloneRepo")
       /\ Acceptable(last'.ref)
       /\ Miss(last'.ref)
       /\ last'.failed \cap {"rm", "write"} = {})
        => /\ Evicted = Needed(Cardinality(OtherKeys), maxClonedRepos)
           /\ (last'.status = "ok" /\ Len(Store) = maxClonedRepos)
                => Len(Store') = maxClonedRepos ]_vars

\* the steps of the call that has ended
Steps == IF "trace" \in DOMAIN last THEN last.trace ELSE <<>>
StepAt(e) == { i \in 1..Len(Steps) : Steps[i].e = e }

\* no deleteRepo ends after git clone was run
EvictionsBeforeFetch ==
  \A i \in StepAt("deleteRepo"), j \in StepAt("git clone") : i < j

\* upsert runs only after a git clone that succeeded
EntryAfterFetch ==
  \A i \in StepAt("upsert") :
    last.fetch = "none" \/ (last.fetch = "ok" /\ \E j \in StepAt("git clone") : j < i)

\* a call that starts with at most maxClonedRepos entries has at most that
\* many after each of its steps
NeverAboveMaximum ==
  (Steps # <<>> /\ Steps[1].n <= maxClonedRepos)
    => \A i \in 1..Len(Steps) : Steps[i].n <= maxClonedRepos

\* C20: in a call of cloneRepo every deleteRepo ends before git clone is
\* run and none after it, the new entry is written only after git clone
\* succeeded, and at no step of a call that starts with at most
\* maxClonedRepos entries does the store hold more than maxClonedRepos.
C20_OrderInsideAcquire ==
  last.op = "cloneRepo" =>
    EvictionsBeforeFetch /\ EntryAfterFetch /\ NeverAboveMaximum

\* the call of cloneRepo finds an entry whose artifact validates, and
\* returns
Hit ==
  /\ Calls("cloneRepo")
  /\ Acceptable(last'.ref)
  /\ ~Miss(last'.ref)
  /\ last'.status = "ok"

\* C21: a cache hit leaves in the merged store the entries it found, that
\* of the key of the call with lastAccessed set to the current time and
\* its other fields as they were, every other entry as it was, and it
\* touches no artifact.
C21_HitRefreshesOnly ==
  [][ Hit =>
        /\ KeysOf(Store') = KeysOf(Store)
        /\ \A key \in KeysOf(Store) :
             EntryOf(Store', key) =
               IF key = CallKey
               THEN [EntryOf(Store, key) EXCEPT !.lastAccessed = now]
               ELSE EntryOf(Store, key)
        /\ disk' = disk ]_vars

\* C22: a key comes into the merged store only in a call of cloneRepo for
\* that key in which git clone succeeded; no hit, no eviction and no call
\* whose git clone failed adds a key.
C22_EntryOnlyAfterFetch ==
  [][ \A key \in KeysOf(Store') \ KeysOf(Store) :
        /\ last'.op = "cloneRepo"
        /\ last'.fetch = "ok"
        /\ key = KeyOfRef(last'.ref) ]_vars

\* a call of cloneRepo whose git clone succeeded has put its key, the
\* second one, into the store
C22_Witness ==
  /\ last.op = "cloneRepo"
  /\ last.fetch = "ok"
  /\ last.status = "ok"
  /\ HasKey(Store, KeyOfRef(last.ref))
  /\ EntryOf(Store, KeyOfRef(last.ref)).clonedAt = now
  /\ Len(Store) = 2

\* the call of cloneRepo finds an entry whose artifact does not validate
Invalidated ==
  /\ Calls("cloneRepo")
  /\ Acceptable(last'.ref)
  /\ HasKey(Store, CallKey)
  /\ ~validateClone(disk, EntryOf(Store, CallKey).path)

\* C23: a call of cloneRepo that finds an entry whose artifact does not
\* validate, and in which deleteRepo of that entry throws, throws the error
\* of the deletion, returns no path, and does not run git clone; where git
\* clone was run after such an entry was found, its deletion had not
\* failed.
C23_FailedDeletionStopsAcquire ==
  [][ Invalidated =>
        /\ last'.errKey = CallKey
             => /\ last'.fetch = "none"
                /\ last'.ret = NoPath
                /\ \/ last'.status = "DeletionFailed" /\ "rm" \in last'.failed
                   \/ last'.status = "StoreUnavailable" /\ "write" \in last'.failed
        /\ last'.fetch # "none" => last'.errKey # CallKey ]_vars

\* the artifact of the entry found did not validate and rm of it failed
C23_Witness ==
  /\ last.op = "cloneRepo"
  /\ Acceptable(last.ref)
  /\ last.errKey = KeyOfRef(last.ref)
  /\ last.status = "DeletionFailed"
  /\ last.fetch = "none"
  /\ existsSync(disk[PathOfRef(last.ref)])

\* the entry at i comes before the entry at j in ascending lastAccessed
\* order, ties in the order of the collection
Older(s, i, j) ==
  \/ s[i].lastAccessed < s[j].lastAccessed
  \/ s[i].lastAccessed = s[j].lastAccessed /\ i < j

\* the keys of the first n entries of s in that order
OldestKeys(s, n) ==
  { s[i].key : i \in { i \in 1..Len(s) :
                        Cardinality({ j \in 1..Len(s) : Older(s, j, i) }) < n } }

\* C24: a call of cleanupLRU(n) in which no collaborator fails removes from
\* the merged store the first min(n, Len) entries in ascending lastAccessed
\* order, ties in collection order, and the artifact of each, leaves every
\* other entry as it was, and ends without error; with n above the number
\* of entries the store is left empty.
C24_EvictLRUExact ==
  [][ (Calls("cleanupLRU") /\ last'.failed = {})
        => /\ last'.status = "ok"
           /\ KeysOf(Store') = KeysOf(Store) \ OldestKeys(Store, last'.arg)
           /\ \A key \in KeysOf(Store') : EntryOf(Store', key) = EntryOf(Store, key)
           /\ \A key \in OldestKeys(Store, last'.arg) :
                ~existsSync(disk'[EntryOf(Store, key).path])
           /\ last'.arg > Len(Store) => Store' = <<>> ]_vars

\* C25: cloneRepo does not wait for another call of cloneRepo for the same
\* key: a call that has reached git clone can start it whatever the other
\* call is doing, also while that one is cloning into the same path and no
\* entry is recorded.
C25_NotDeduplicated ==
  \A c \in Tools, d \in Tools :
    (/\ c # d
     /\ running # <<>>
     /\ running[c].pc = "git clone"
     /\ InFlight(d)
     /\ running[d].key = running[c].key)
      => ENABLED GitCloneStart(c)

\* two calls for the same key have both started git clone into the same
\* path, and the store has no entry for the key
C25_Witness ==
  /\ running # <<>>
  /\ running["execute-1"].pc = "cloning"
  /\ running["execute-2"].pc = "cloning"
  /\ running["execute-1"].path = running["execute-2"].path
  /\ Found(running["execute-1"].key).key = NoKey

\* both callers of cloneRepo have their path back, from calls for two keys
\* that overlapped and each cloned
BothCloned ==
  /\ running # <<>>
  /\ \A c \in Tools :
       /\ running[c].pc = "done"
       /\ running[c].status = "ok"
       /\ running[c].fetch = "ok"
  /\ running["execute-1"].key # running["execute-2"].key
  /\ "execute-1" \in running["execute-2"].with

\* C28: when two calls of cloneRepo for two different keys overlap and
\* both clone and return, the store holds an entry for each of the two
\* keys and no more than maxClonedRepos entries.
C28_NoLostUpdate ==
  BothCloned =>
    /\ \A c \in Tools : Found(running[c].key).key # NoKey
    /\ Len(Loaded) <= maxClonedRepos

\* this step is cloneRepo returning a path to caller c
ReturnsPath(c) ==
  /\ running # <<>>
  /\ running[c].op = "cloneRepo"
  /\ running[c].pc = "return"
  /\ running'[c].pc = "done"
  /\ running[c].ret # NoPath

\* C29: when cloneRepo returns a path, the store holds an entry for the key
\* of the call with that path and an artifact exists at the path, also when
\* a cleanupStale started by session.idle overlaps the call.
C29_ReturnedPathIsCached ==
  [][ \A c \in Tools :
        ReturnsPath(c) =>
          /\ Found(running[c].key).key # NoKey
          /\ Found(running[c].key).path = running[c].ret
          /\ existsSync(disk[running[c].ret]) ]_vars

\* the entry the call of upsert that ends in the next state was given: a
\* new record for the key, or the entry of the store with lastAccessed
\* refreshed
Upserted ==
  IF HasKey(Store, CallKey)
  THEN [EntryOf(Store, CallKey) EXCEPT !.lastAccessed = now]
  ELSE NewMetadata(parseGitHubUrl(last'.ref), CallPath, now)

\* C26: after a call of upsert(entry, useProject) that returns, findByKey
\* of the key returns that entry, for either value of useProject and
\* whichever file held an entry for the key before.
C26_ReadYourWrite ==
  [][ (Calls("upsert") /\ last'.status = "ok")
        => /\ HasKey(Store', CallKey)
           /\ EntryOf(Store', CallKey) = Upserted ]_vars

\* C27: after a call of remove(key, useProject) that returns, and after a
\* cleanupLRU that returns having run deleteRepo on a key, load() does not
\* contain the key, whichever file held its entry before.
C27_RemovedIsGone ==
  [][ /\ (Calls("remove") /\ last'.status = "ok") => ~HasKey(Store', CallKey)
      /\ (Calls("cleanupLRU") /\ last'.status = "ok")
           => \A key \in OldestKeys(Store, last'.arg) : ~HasKey(Store', key) ]_vars

=============================================================================
